---- MODULE Spec2Model ----
(***************************************************************************)
(* Model of the Park2Go pricing backend: the scoring engine and the price   *)
(* composer of dynamicpricing.py and the /recommendations handler of        *)
(* app.py.                                                                  *)
(*                                                                          *)
(* Numbers are exact rationals [n, d] (d > 0, lowest terms): the model      *)
(* computes what the Python formulas compute in exact arithmetic and does   *)
(* not model binary floating-point rounding.  Exceptions are results        *)
(* [exc |-> name]: a call returns Ok(v) or Raise(e).                        *)
(*                                                                          *)
(* A behaviour is one session: Init draws a function name and the argument  *)
(* records of one or two calls, and each action applies the function to     *)
(* the next pending argument record and appends what it returns.            *)
(***************************************************************************)
EXTENDS Integers, Sequences, FiniteSets, TLC

VARIABLES fn, argv, rets

vars == <<fn, argv, rets>>

(***************************************************************************)
(* Bounds of the model                                                      *)
(***************************************************************************)
\* numeric inputs of the score functions are k/2 for k in -2 .. 2*MaxNum
MaxNum == 2
\* longest list of adjacent areas
MaxAdj == 2
\* longest list of peak-hour ranges
MaxPeaks == 1
\* most rows the store returns to one request
MaxRows == 2

(***************************************************************************)
(* Exact rational arithmetic                                                *)
(***************************************************************************)
Abs(x) == IF x < 0 THEN -x ELSE x

RECURSIVE GCD(_, _)
GCD(a, b) == IF b = 0 THEN a ELSE GCD(b, a % b)

LCM(a, b) == (a \div GCD(a, b)) * b

\* the rational n/d (d > 0) in lowest terms
R(n, d) ==
    LET g == GCD(Abs(n), d)
    IN  [n |-> n \div g, d |-> d \div g]

Zero == R(0, 1)
One == R(1, 1)

RNeg(a) == [n |-> -a.n, d |-> a.d]

RAdd(a, b) ==
    IF a.n = 0 THEN b
    ELSE IF b.n = 0 THEN a
    ELSE LET l == LCM(a.d, b.d)
         IN  R(a.n * (l \div a.d) + b.n * (l \div b.d), l)

RSub(a, b) == RAdd(a, RNeg(b))

RMul(a, b) ==
    IF a.n = 0 \/ b.n = 0 THEN Zero
    ELSE LET g1 == GCD(Abs(a.n), b.d)
             g2 == GCD(Abs(b.n), a.d)
         IN  R((a.n \div g1) * (b.n \div g2), (a.d \div g2) * (b.d \div g1))

\* a / b for b # 0
RDiv(a, b) ==
    IF b.n > 0 THEN RMul(a, [n |-> b.d, d |-> b.n])
    ELSE RMul(a, [n |-> -b.d, d |-> -b.n])

RLt(a, b) == RSub(a, b).n < 0
RLe(a, b) == RSub(a, b).n <= 0

RMin(a, b) == IF RLt(b, a) THEN b ELSE a
RMax(a, b) == IF RLt(a, b) THEN b ELSE a

InUnit(a) == RLe(Zero, a) /\ RLe(a, One)

(***************************************************************************)
(* Results of a call                                                        *)
(***************************************************************************)
Ok(v) == [exc |-> "none", val |-> v]
Raise(e) == [exc |-> e, val |-> Zero]

(***************************************************************************)
(* dynamicpricing.py: the score functions                                   *)
(***************************************************************************)
\* max(min_val, min(value, max_val))
clamp(value, min_val, max_val) == RMax(min_val, RMin(value, max_val))

calc_sc_d1_uncapped(requests_per_min, Rmax) ==
    IF Rmax = Zero THEN Ok(Zero)
    ELSE Ok(RDiv(requests_per_min, Rmax))

calc_sc_d1_noguard(requests_per_min, Rmax) ==
    IF Rmax = Zero THEN Raise("ZeroDivisionError")
    ELSE Ok(RMin(One, RDiv(requests_per_min, Rmax)))

calc_sc_d1(requests_per_min, Rmax) ==
    IF Rmax = Zero THEN Ok(Zero)
    ELSE Ok(RMin(One, RDiv(requests_per_min, Rmax)))

calc_sc_d2(avg_occupied_slots_hist, total_slots) ==
    IF total_slots = Zero THEN Ok(Zero)
    ELSE Ok(clamp(RDiv(avg_occupied_slots_hist, total_slots), Zero, One))

calc_sc_d3(bookings_last_hour, views_last_hour) ==
    IF views_last_hour = Zero THEN Ok(Zero)
    ELSE Ok(clamp(RDiv(bookings_last_hour, views_last_hour), Zero, One))

calc_sc_s1(free_slots, total_slots) ==
    IF total_slots = Zero THEN Ok(One)
    ELSE Ok(clamp(RSub(One, RDiv(free_slots, total_slots)), Zero, One))

calc_sc_s2(successful_bookings_30d, accepted_bookings_30d) ==
    IF accepted_bookings_30d = Zero THEN Ok(Zero)
    ELSE Ok(clamp(RDiv(successful_bookings_30d, accepted_bookings_30d), Zero, One))

calc_sc_t1(avg_speed, free_flow_speed) ==
    IF free_flow_speed = Zero THEN Ok(One)
    ELSE Ok(clamp(RSub(One, RDiv(avg_speed, free_flow_speed)), Zero, One))

calc_sc_t2(vehicle_density, DensityMax) ==
    IF DensityMax = Zero THEN Ok(Zero)
    ELSE Ok(RMin(One, RDiv(vehicle_density, DensityMax)))

RECURSIVE RSum(_)
RSum(s) == IF s = <<>> THEN Zero ELSE RAdd(Head(s), RSum(Tail(s)))

\* np.mean of a non-empty list
Mean(s) == RDiv(RSum(s), R(Len(s), 1))

\* the 0.01 that replaces a smaller local value in the denominator
SafeFloor == R(1, 100)

calc_sc_a1_uncapped(local_congestion_value, adjacent_congestion_values) ==
    IF adjacent_congestion_values = <<>> THEN Ok(Zero)
    ELSE LET mean_adj_congestion == Mean(adjacent_congestion_values)
             local_val_safe == RMax(local_congestion_value, SafeFloor)
             diff == RSub(local_congestion_value, mean_adj_congestion)
         IN  IF RLt(Zero, diff) THEN Ok(RDiv(diff, local_val_safe))
             ELSE Ok(Zero)

calc_sc_a1(local_congestion_value, adjacent_congestion_values) ==
    IF adjacent_congestion_values = <<>> THEN Ok(Zero)
    ELSE LET mean_adj_congestion == Mean(adjacent_congestion_values)
             local_val_safe == RMax(local_congestion_value, SafeFloor)
             diff == RSub(local_congestion_value, mean_adj_congestion)
         IN  IF RLt(Zero, diff) THEN Ok(RMin(One, RDiv(diff, local_val_safe)))
             ELSE Ok(Zero)

calc_sc_a2(local_average_price, adjacent_average_prices) ==
    IF adjacent_average_prices = <<>> THEN Ok(Zero)
    ELSE LET mean_adj_price == Mean(adjacent_average_prices)
             local_price_safe == RMax(local_average_price, SafeFloor)
             diff == RSub(local_average_price, mean_adj_price)
         IN  IF RLt(Zero, diff) THEN Ok(RMin(One, RDiv(diff, local_price_safe)))
             ELSE Ok(Zero)

calc_sc_w1(rain_mm_last_30min, rain_max_mm) ==
    IF rain_max_mm = Zero THEN Ok(Zero)
    ELSE Ok(clamp(RDiv(rain_mm_last_30min, rain_max_mm), Zero, One))

calc_sc_w2(is_waterlogged) == Ok(IF is_waterlogged THEN One ELSE Zero)

calc_sc_time1_closed(current_hour, peak_hours) ==
    LET is_peak == \E i \in 1..Len(peak_hours) :
                       peak_hours[i][1] <= current_hour /\ current_hour <= peak_hours[i][2]
    IN  Ok(IF is_peak THEN One ELSE Zero)

\* peak_hours is a sequence of <<start, end>> pairs
calc_sc_time1(current_hour, peak_hours) ==
    LET is_peak == \E i \in 1..Len(peak_hours) :
                       peak_hours[i][1] <= current_hour /\ current_hour < peak_hours[i][2]
    IN  Ok(IF is_peak THEN One ELSE Zero)

calc_sc_time2(is_holiday_or_event) == Ok(IF is_holiday_or_event THEN One ELSE Zero)

calc_sc_sa1(cctv_coverage_percent) ==
    Ok(clamp(RDiv(cctv_coverage_percent, R(100, 1)), Zero, One))

calc_sc_sa2(road_width_m, max_width_for_score) ==
    IF max_width_for_score = Zero THEN Ok(One)
    ELSE Ok(clamp(RSub(One, RDiv(road_width_m, max_width_for_score)), Zero, One))

(***************************************************************************)
(* dynamicpricing.py: calculate_all_scores                                  *)
(***************************************************************************)
ScoreIds ==
    <<"SC_D1", "SC_D2", "SC_D3", "SC_S1", "SC_S2", "SC_T1", "SC_T2", "SC_A1",
      "SC_A2", "SC_W1", "SC_W2", "SC_Time1", "SC_Time2", "SC_SA1", "SC_SA2">>

ScoreIdSet == {ScoreIds[i] : i \in 1..Len(ScoreIds)}

\* the keys read with inputs[...]: a missing one raises KeyError
SubscriptedKeys ==
    {"requests_per_min", "Rmax", "avg_occupied_slots_hist", "total_slots",
     "bookings_last_hour", "views_last_hour", "free_slots",
     "successful_bookings_30d", "accepted_bookings_30d", "avg_speed",
     "free_flow_speed", "vehicle_density", "DensityMax", "local_average_price",
     "rain_mm_last_30min", "rain_max_mm", "is_waterlogged", "peak_hours",
     "current_hour", "is_holiday_or_event", "cctv_coverage_percent",
     "road_width_m", "max_width_for_score"}

\* [area[key] for area in areas if key in area]
RECURSIVE Pluck(_, _)
Pluck(areas, key) ==
    IF areas = <<>> THEN <<>>
    ELSE IF key \in DOMAIN Head(areas)
         THEN <<Head(areas)[key]>> \o Pluck(Tail(areas), key)
         ELSE Pluck(Tail(areas), key)

\* inputs.get("adjacent_areas", [])
AdjacentAreas(inputs) ==
    IF "adjacent_areas" \in DOMAIN inputs THEN inputs["adjacent_areas"] ELSE <<>>

ScoreParts_density(inputs) ==
    LET adj_areas == AdjacentAreas(inputs)
        adj_congestion == Pluck(adj_areas, "congestion")
        adj_prices == Pluck(adj_areas, "price")
        sc_t1 == calc_sc_t1(inputs["avg_speed"], inputs["free_flow_speed"])
        local_congestion_for_A1 ==
            calc_sc_t2(inputs["vehicle_density"], inputs["DensityMax"]).val
    IN  [SC_D1 |-> calc_sc_d1(inputs["requests_per_min"], inputs["Rmax"]),
         SC_D2 |-> calc_sc_d2(inputs["avg_occupied_slots_hist"], inputs["total_slots"]),
         SC_D3 |-> calc_sc_d3(inputs["bookings_last_hour"], inputs["views_last_hour"]),
         SC_S1 |-> calc_sc_s1(inputs["free_slots"], inputs["total_slots"]),
         SC_S2 |-> calc_sc_s2(inputs["successful_bookings_30d"],
                              inputs["accepted_bookings_30d"]),
         SC_T1 |-> sc_t1,
         SC_T2 |-> calc_sc_t2(inputs["vehicle_density"], inputs["DensityMax"]),
         SC_A1 |-> calc_sc_a1(local_congestion_for_A1, adj_congestion),
         SC_A2 |-> calc_sc_a2(inputs["local_average_price"], adj_prices),
         SC_W1 |-> calc_sc_w1(inputs["rain_mm_last_30min"], inputs["rain_max_mm"]),
         SC_W2 |-> calc_sc_w2(inputs["is_waterlogged"]),
         SC_Time1 |-> calc_sc_time1(inputs["current_hour"], inputs["peak_hours"]),
         SC_Time2 |-> calc_sc_time2(inputs["is_holiday_or_event"]),
         SC_SA1 |-> calc_sc_sa1(inputs["cctv_coverage_percent"]),
         SC_SA2 |-> calc_sc_sa2(inputs["road_width_m"], inputs["max_width_for_score"])]

\* the fifteen calls, each on the fields it reads; SC_A1 reads scores["SC_T1"]
ScoreParts(inputs) ==
    LET adj_areas == AdjacentAreas(inputs)
        adj_congestion == Pluck(adj_areas, "congestion")
        adj_prices == Pluck(adj_areas, "price")
        sc_t1 == calc_sc_t1(inputs["avg_speed"], inputs["free_flow_speed"])
        local_congestion_for_A1 == sc_t1.val
    IN  [SC_D1 |-> calc_sc_d1(inputs["requests_per_min"], inputs["Rmax"]),
         SC_D2 |-> calc_sc_d2(inputs["avg_occupied_slots_hist"], inputs["total_slots"]),
         SC_D3 |-> calc_sc_d3(inputs["bookings_last_hour"], inputs["views_last_hour"]),
         SC_S1 |-> calc_sc_s1(inputs["free_slots"], inputs["total_slots"]),
         SC_S2 |-> calc_sc_s2(inputs["successful_bookings_30d"],
                              inputs["accepted_bookings_30d"]),
         SC_T1 |-> sc_t1,
         SC_T2 |-> calc_sc_t2(inputs["vehicle_density"], inputs["DensityMax"]),
         SC_A1 |-> calc_sc_a1(local_congestion_for_A1, adj_congestion),
         SC_A2 |-> calc_sc_a2(inputs["local_average_price"], adj_prices),
         SC_W1 |-> calc_sc_w1(inputs["rain_mm_last_30min"], inputs["rain_max_mm"]),
         SC_W2 |-> calc_sc_w2(inputs["is_waterlogged"]),
         SC_Time1 |-> calc_sc_time1(inputs["current_hour"], inputs["peak_hours"]),
         SC_Time2 |-> calc_sc_time2(inputs["is_holiday_or_event"]),
         SC_SA1 |-> calc_sc_sa1(inputs["cctv_coverage_percent"]),
         SC_SA2 |-> calc_sc_sa2(inputs["road_width_m"], inputs["max_width_for_score"])]

calculate_all_scores(inputs) ==
    IF ~(SubscriptedKeys \subseteq DOMAIN inputs) THEN Raise("KeyError")
    ELSE LET parts == ScoreParts(inputs)
             failed == {i \in 1..Len(ScoreIds) : parts[ScoreIds[i]].exc # "none"}
         IN  IF failed # {}
             THEN LET first == CHOOSE i \in failed : \A j \in failed : i <= j
                  IN  Raise(parts[ScoreIds[first]].exc)
             ELSE Ok([k \in ScoreIdSet |-> parts[k].val])

(***************************************************************************)
(* dynamicpricing.py: base prices, weights and the price composer            *)
(***************************************************************************)
\* a Python str is the sequence of its characters; None is not a str
None == <<"None">>

IsStr(s) == s # None

LowerOf ==
    [A |-> "a", B |-> "b", C |-> "c", D |-> "d", E |-> "e", F |-> "f", G |-> "g",
     H |-> "h", I |-> "i", J |-> "j", K |-> "k", L |-> "l", M |-> "m", N |-> "n",
     O |-> "o", P |-> "p", Q |-> "q", R |-> "r", S |-> "s", T |-> "t", U |-> "u",
     V |-> "v", W |-> "w", X |-> "x", Y |-> "y", Z |-> "z"]

\* str.lower() on ASCII text
lower(s) == [i \in 1..Len(s) |-> IF s[i] \in DOMAIN LowerOf THEN LowerOf[s[i]] ELSE s[i]]

S_regular == <<"r", "e", "g", "u", "l", "a", "r">>
S_premium == <<"p", "r", "e", "m", "i", "u", "m">>
S_prebooked == <<"p", "r", "e", "b", "o", "o", "k", "e", "d">>
S_car == <<"c", "a", "r">>
S_motorcycle == <<"m", "o", "t", "o", "r", "c", "y", "c", "l", "e">>
S_bike == <<"b", "i", "k", "e">>
S_Premium == <<"P", "r", "e", "m", "i", "u", "m">>
S_Car == <<"C", "a", "r">>

BookingTypes == {S_regular, S_premium, S_prebooked}
VehicleTypes == {S_car, S_motorcycle}

BASE_PRICES ==
    [b \in BookingTypes |->
        [v \in VehicleTypes |->
            IF b = S_regular THEN (IF v = S_car THEN R(70, 1) ELSE R(50, 1))
            ELSE IF b = S_premium THEN (IF v = S_car THEN R(100, 1) ELSE R(70, 1))
            ELSE (IF v = S_car THEN R(80, 1) ELSE R(60, 1))]]

\* the value get_base_price returns when the lookup raises KeyError
FallbackPrice == R(70, 1)

get_base_price_exact(booking_type, vehicle_type) ==
    IF ~IsStr(booking_type) \/ ~IsStr(vehicle_type) THEN Raise("AttributeError")
    ELSE IF booking_type \in BookingTypes /\ vehicle_type \in VehicleTypes
         THEN Ok(BASE_PRICES[booking_type][vehicle_type])
         ELSE Ok(FallbackPrice)

\* None.lower() raises AttributeError, which the except KeyError does not catch
get_base_price(booking_type, vehicle_type) ==
    IF ~IsStr(booking_type) \/ ~IsStr(vehicle_type) THEN Raise("AttributeError")
    ELSE IF lower(booking_type) \in BookingTypes /\ lower(vehicle_type) \in VehicleTypes
         THEN Ok(BASE_PRICES[lower(booking_type)][lower(vehicle_type)])
         ELSE Ok(FallbackPrice)

get_global_weights_unit ==
    [SC_D1 |-> R(1311, 10000), SC_D2 |-> R(775, 10000), SC_D3 |-> R(411, 10000),
     SC_S1 |-> R(659, 10000), SC_S2 |-> R(220, 10000), SC_T1 |-> R(1187, 10000),
     SC_T2 |-> R(593, 10000), SC_A1 |-> R(984, 10000), SC_A2 |-> R(492, 10000),
     SC_W1 |-> R(491, 10000), SC_W2 |-> R(327, 10000), SC_Time1 |-> R(843, 10000),
     SC_Time2 |-> R(211, 10000), SC_SA1 |-> R(816, 10000), SC_SA2 |-> R(680, 10000)]

get_global_weights_typo ==
    [SC_D1 |-> R(1312, 1000), SC_D2 |-> R(775, 10000), SC_D3 |-> R(411, 10000),
     SC_S1 |-> R(659, 10000), SC_S2 |-> R(220, 10000), SC_T1 |-> R(1187, 10000),
     SC_T2 |-> R(593, 10000), SC_A1 |-> R(984, 10000), SC_A2 |-> R(492, 10000),
     SC_W1 |-> R(491, 10000), SC_W2 |-> R(327, 10000), SC_Time1 |-> R(843, 10000),
     SC_Time2 |-> R(211, 10000), SC_SA1 |-> R(816, 10000), SC_SA2 |-> R(680, 10000)]

get_global_weights ==
    [SC_D1 |-> R(1312, 10000), SC_D2 |-> R(775, 10000), SC_D3 |-> R(411, 10000),
     SC_S1 |-> R(659, 10000), SC_S2 |-> R(220, 10000), SC_T1 |-> R(1187, 10000),
     SC_T2 |-> R(593, 10000), SC_A1 |-> R(984, 10000), SC_A2 |-> R(492, 10000),
     SC_W1 |-> R(491, 10000), SC_W2 |-> R(327, 10000), SC_Time1 |-> R(843, 10000),
     SC_Time2 |-> R(211, 10000), SC_SA1 |-> R(816, 10000), SC_SA2 |-> R(680, 10000)]

\* scores.get(key, 0.0)
ScoreGet(scores, key) == IF key \in DOMAIN scores THEN scores[key] ELSE Zero

\* the loop "for key in weights: delta_i += weights[key] * scores.get(key, 0.0)"
RECURSIVE WeightedSum(_, _, _)
WeightedSum(keys, weights, scores) ==
    IF keys = {} THEN Zero
    ELSE LET key == CHOOSE k \in keys : TRUE
         IN  RAdd(RMul(weights[key], ScoreGet(scores, key)),
                  WeightedSum(keys \ {key}, weights, scores))

calculate_dynamic_price_floored(base_price, scores, weights, alpha, delta_bar) ==
    LET delta_i == WeightedSum(DOMAIN weights, weights, scores)
        multiplier == RMax(Zero, RAdd(One, RMul(alpha, RSub(delta_i, delta_bar))))
        dynamic_price == RMul(base_price, multiplier)
    IN  Ok([dynamic_price |-> dynamic_price, delta_i |-> delta_i,
            multiplier |-> multiplier])

calculate_dynamic_price_subscript(base_price, scores, weights, alpha, delta_bar) ==
    IF DOMAIN weights \ DOMAIN scores # {} THEN Raise("KeyError")
    ELSE LET delta_i == WeightedSum(DOMAIN weights, weights, scores)
             multiplier == RAdd(One, RMul(alpha, RSub(delta_i, delta_bar)))
             dynamic_price == RMul(base_price, multiplier)
         IN  Ok([dynamic_price |-> dynamic_price, delta_i |-> delta_i,
                 multiplier |-> multiplier])

calculate_dynamic_price(base_price, scores, weights, alpha, delta_bar) ==
    LET delta_i == WeightedSum(DOMAIN weights, weights, scores)
        multiplier == RAdd(One, RMul(alpha, RSub(delta_i, delta_bar)))
        dynamic_price == RMul(base_price, multiplier)
    IN  Ok([dynamic_price |-> dynamic_price, delta_i |-> delta_i,
            multiplier |-> multiplier])

(***************************************************************************)
(* app.py: text helpers, geocode_location and float()                       *)
(***************************************************************************)
Whitespace == {" ", "\t", "\n"}

\* str.strip()
RECURSIVE LStrip(_)
LStrip(s) == IF s # <<>> /\ Head(s) \in Whitespace THEN LStrip(Tail(s)) ELSE s

RECURSIVE RStrip(_)
RStrip(s) ==
    IF s # <<>> /\ s[Len(s)] \in Whitespace THEN RStrip(SubSeq(s, 1, Len(s) - 1)) ELSE s

strip(s) == RStrip(LStrip(s))

\* name in key
Contains(key, name) ==
    \E i \in 0..(Len(key) - Len(name)) : SubSeq(key, i + 1, i + Len(name)) = name

GEO_MAP ==
    <<[name |-> <<"g", "u", "l", "s", "h", "a", "n">>, lat |-> R(237925, 10000), lon |-> R(904078, 10000)],
      [name |-> <<"b", "a", "n", "a", "n", "i">>, lat |-> R(237934, 10000), lon |-> R(904043, 10000)],
      [name |-> <<"b", "a", "s", "h", "u", "n", "d", "h", "a", "r", "a">>, lat |-> R(238103, 10000), lon |-> R(904316, 10000)],
      [name |-> <<"d", "h", "a", "n", "m", "o", "n", "d", "i">>, lat |-> R(237465, 10000), lon |-> R(903760, 10000)],
      [name |-> <<"m", "i", "r", "p", "u", "r">>, lat |-> R(238151, 10000), lon |-> R(903630, 10000)],
      [name |-> <<"u", "t", "t", "a", "r", "a">>, lat |-> R(238740, 10000), lon |-> R(903976, 10000)],
      [name |-> <<"t", "e", "j", "g", "a", "o", "n">>, lat |-> R(237807, 10000), lon |-> R(904120, 10000)],
      [name |-> <<"m", "o", "h", "a", "k", "h", "a", "l", "i">>, lat |-> R(237805, 10000), lon |-> R(903925, 10000)],
      [name |-> <<"f", "a", "r", "m", "g", "a", "t", "e">>, lat |-> R(237570, 10000), lon |-> R(903910, 10000)],
      [name |-> <<"m", "o", "t", "i", "j", "h", "e", "e", "l">>, lat |-> R(237323, 10000), lon |-> R(904160, 10000)],
      [name |-> <<"l", "a", "l", "b", "a", "g", "h">>, lat |-> R(237189, 10000), lon |-> R(903880, 10000)],
      [name |-> <<"s", "h", "a", "h", "b", "a", "g", "h">>, lat |-> R(237386, 10000), lon |-> R(903954, 10000)],
      [name |-> <<"k", "h", "i", "l", "g", "a", "o", "n">>, lat |-> R(237465, 10000), lon |-> R(904320, 10000)],
      [name |-> <<"r", "a", "m", "p", "u", "r", "a">>, lat |-> R(237638, 10000), lon |-> R(904245, 10000)],
      [name |-> <<"b", "a", "d", "d", "a">>, lat |-> R(237805, 10000), lon |-> R(904262, 10000)],
      [name |-> <<"m", "o", "h", "a", "m", "m", "a", "d", "p", "u", "r">>, lat |-> R(237589, 10000), lon |-> R(903580, 10000)],
      [name |-> <<"a", "g", "a", "r", "g", "a", "o", "n">>, lat |-> R(237780, 10000), lon |-> R(903750, 10000)],
      [name |-> <<"k", "a", "l", "y", "a", "n", "p", "u", "r">>, lat |-> R(237888, 10000), lon |-> R(903582, 10000)],
      [name |-> <<"p", "a", "l", "l", "a", "b", "i">>, lat |-> R(238295, 10000), lon |-> R(903654, 10000)],
      [name |-> <<"k", "a", "m", "a", "l", "a", "p", "u", "r">>, lat |-> R(237380, 10000), lon |-> R(904240, 10000)]>>

\* "no coordinates": the None geocode_location returns
NoCoords == [found |-> FALSE, lat |-> Zero, lon |-> Zero]
Coords(lat, lon) == [found |-> TRUE, lat |-> lat, lon |-> lon]

geocode_location_exact(q) ==
    IF q = None \/ q = <<>> THEN NoCoords
    ELSE LET key == lower(strip(q))
             hits == {i \in 1..Len(GEO_MAP) : GEO_MAP[i].name = key}
         IN  IF hits = {} THEN NoCoords
             ELSE LET first == CHOOSE i \in hits : \A j \in hits : i <= j
                  IN  Coords(GEO_MAP[first].lat, GEO_MAP[first].lon)

\* the first entry, in the order of GEO_MAP, whose name occurs in the key
geocode_location(q) ==
    IF q = None \/ q = <<>> THEN NoCoords
    ELSE LET key == lower(strip(q))
             hits == {i \in 1..Len(GEO_MAP) : Contains(key, GEO_MAP[i].name)}
         IN  IF hits = {} THEN NoCoords
             ELSE LET first == CHOOSE i \in hits : \A j \in hits : i <= j
                  IN  Coords(GEO_MAP[first].lat, GEO_MAP[first].lon)

Digits == <<"0", "1", "2", "3", "4", "5", "6", "7", "8", "9">>
DigitSet == {Digits[i] : i \in 1..Len(Digits)}
DigitValue(c) == (CHOOSE i \in 1..Len(Digits) : Digits[i] = c) - 1

RECURSIVE DigitsToNat(_)
DigitsToNat(s) ==
    IF s = <<>> THEN 0 ELSE 10 * DigitsToNat(SubSeq(s, 1, Len(s) - 1)) + DigitValue(s[Len(s)])

RECURSIVE Pow10(_)
Pow10(k) == IF k = 0 THEN 1 ELSE 10 * Pow10(k - 1)

\* float(text) for decimal text: optional sign, digits, optional point and
\* digits, surrounding whitespace; anything else raises ValueError.  (Exponents,
\* "inf", "nan" and digit-group underscores are not modelled; no input of the
\* model uses them.)
ParseFloat(text) ==
    LET t == strip(text)
        signed == t # <<>> /\ Head(t) \in {"+", "-"}
        body == IF signed THEN Tail(t) ELSE t
        points == {i \in 1..Len(body) : body[i] = "."}
        cut == IF points = {} THEN Len(body) + 1 ELSE CHOOSE i \in points : TRUE
        whole == SubSeq(body, 1, cut - 1)
        frac == SubSeq(body, cut + 1, Len(body))
        wellFormed ==
            /\ Cardinality(points) <= 1
            /\ Len(whole) + Len(frac) >= 1
            /\ \A i \in 1..Len(whole) : whole[i] \in DigitSet
            /\ \A i \in 1..Len(frac) : frac[i] \in DigitSet
        magnitude == R(DigitsToNat(whole \o frac), Pow10(Len(frac)))
    IN  IF ~wellFormed THEN Raise("ValueError")
        ELSE IF signed /\ Head(t) = "-" THEN Ok(RNeg(magnitude))
        ELSE Ok(magnitude)

\* int(x) of a number: truncation toward zero
IntOf(x) == IF x.n >= 0 THEN R(x.n \div x.d, 1) ELSE R(-((-x.n) \div x.d), 1)

\* bool(int(x))
BoolOfInt(x) == IntOf(x) # Zero

(***************************************************************************)
(* app.py: haversine_km in fixed point.  Angles are in units of 1e-4        *)
(* degree; cos is its Taylor polynomial and, the angular differences of     *)
(* the model being below 0.2 degree, sin and asin are their leading term:   *)
(* distance^2 = (R*u)^2 * (dlat^2 + cos(lat1)*cos(lat2)*dlon^2), with       *)
(* R = 6371 km and u = 1e-4 degree in radians, R*u = 11.1195 m.             *)
(***************************************************************************)
\* a coordinate in degrees, in units of 1e-4 degree
ToE4(x) == (x.n \div x.d) * 10000 + ((x.n % x.d) * 10000) \div x.d

\* cos of an angle given in 1e-4 degree, scaled by 10000
CosE4(angle) ==
    LET x == ((Abs(angle) \div 10) * 17453) \div 100000
        x2 == (x * x) \div 10000
        x4 == (x2 * x2) \div 10000
        x6 == (x4 * x2) \div 10000
    IN  10000 - x2 \div 2 + x4 \div 24 - x6 \div 720

\* the largest dlat^2 + cc*dlon^2 the model converts to metres exactly
FarUnits == 100000

\* the squared distance in m^2, capped for points farther than about 3.5 km
haversine_m2(lat1, lon1, lat2, lon2) ==
    LET dlat == ToE4(lat2) - ToE4(lat1)
        dlon == ToE4(lon2) - ToE4(lon1)
        cc == (CosE4(ToE4(lat1)) * CosE4(ToE4(lat2))) \div 10000
        wide == Abs(dlat) > 1000 \/ Abs(dlon) > 1000
        units == IF wide THEN FarUnits
                 ELSE dlat * dlat + (((Abs(dlon) * cc) \div 100) * Abs(dlon)) \div 100
    IN  IF units >= FarUnits THEN (FarUnits * 12364) \div 100
        ELSE (units * 12364) \div 100

\* round(dist, 3) in km, as whole metres
RoundedMetres(m2) ==
    LET k == CHOOSE j \in 0..3600 : j * j <= m2 /\ m2 < (j + 1) * (j + 1)
    IN  IF m2 > k * k + k THEN k + 1 ELSE k

\* dist > 2.0
RadiusKm == 2
Beyond(m2) == m2 > (RadiusKm * 1000) * (RadiusKm * 1000)

\* round(x, digits) of Python: to the nearest multiple of 1/scale, ties to even
RoundTo(x, scale) ==
    LET y == RMul(x, R(scale, 1))
        q == y.n \div y.d
        twice == 2 * (y.n % y.d)
    IN  IF twice < y.d THEN R(q, scale)
        ELSE IF twice > y.d THEN R(q + 1, scale)
        ELSE IF q % 2 = 0 THEN R(q, scale)
        ELSE R(q + 1, scale)

(***************************************************************************)
(* Sessions: the pending call and what the calls so far returned            *)
(***************************************************************************)
Pending == Len(rets) < Len(argv)
Arg == argv[Len(rets) + 1]
Done == Len(rets) = Len(argv)

Return(r) == rets' = Append(rets, r) /\ UNCHANGED <<fn, argv>>

(***************************************************************************)
(* Inputs of the score functions                                            *)
(***************************************************************************)
Nums == {R(k, 2) : k \in -2..(2 * MaxNum)}

\* local values around the 0.01 floor of calc_sc_a1 and calc_sc_a2
Locals == Nums \cup {R(1, 200), R(1, 100), R(1, 50), R(1, 4)}

SeqsUpTo(S, n) == UNION {[1..m -> S] : m \in 0..n}

Hours == 0..23
PeakRanges == {<<8, 10>>, <<17, 20>>, <<0, 24>>, <<10, 8>>}
PeakLists == SeqsUpTo(PeakRanges, MaxPeaks) \cup {<<<<8, 10>>, <<17, 20>>>>}

Percents == {R(-10, 1), Zero, R(50, 1), R(80, 1), R(100, 1), R(150, 1)}

TwoArgScoreFns ==
    {"calc_sc_d1", "calc_sc_d2", "calc_sc_d3", "calc_sc_s1", "calc_sc_s2",
     "calc_sc_t1", "calc_sc_t2", "calc_sc_w1", "calc_sc_sa2"}

\* one call of one score function: a is the first parameter, b the second
ScoreSessions ==
    {<<f, <<[a |-> x, b |-> y]>> >> : f \in TwoArgScoreFns, x \in Nums, y \in Nums}
    \cup {<<f, <<[a |-> x, b |-> l]>> >> :
              f \in {"calc_sc_a1", "calc_sc_a2"}, x \in Locals, l \in SeqsUpTo(Nums, MaxAdj)}
    \cup {<<f, <<[a |-> x]>> >> : f \in {"calc_sc_w2", "calc_sc_time2"}, x \in BOOLEAN}
    \cup {<<"calc_sc_time1", <<[a |-> h, b |-> p]>> >> : h \in Hours, p \in PeakLists}
    \cup {<<"calc_sc_sa1", <<[a |-> x]>> >> : x \in Percents}

Call_calc_sc_d1 == fn = "calc_sc_d1" /\ Pending /\ Return(calc_sc_d1(Arg.a, Arg.b))
Call_calc_sc_d2 == fn = "calc_sc_d2" /\ Pending /\ Return(calc_sc_d2(Arg.a, Arg.b))
Call_calc_sc_d3 == fn = "calc_sc_d3" /\ Pending /\ Return(calc_sc_d3(Arg.a, Arg.b))
Call_calc_sc_s1 == fn = "calc_sc_s1" /\ Pending /\ Return(calc_sc_s1(Arg.a, Arg.b))
Call_calc_sc_s2 == fn = "calc_sc_s2" /\ Pending /\ Return(calc_sc_s2(Arg.a, Arg.b))
Call_calc_sc_t1 == fn = "calc_sc_t1" /\ Pending /\ Return(calc_sc_t1(Arg.a, Arg.b))
Call_calc_sc_t2 == fn = "calc_sc_t2" /\ Pending /\ Return(calc_sc_t2(Arg.a, Arg.b))
Call_calc_sc_a1 == fn = "calc_sc_a1" /\ Pending /\ Return(calc_sc_a1(Arg.a, Arg.b))
Call_calc_sc_a2 == fn = "calc_sc_a2" /\ Pending /\ Return(calc_sc_a2(Arg.a, Arg.b))
Call_calc_sc_w1 == fn = "calc_sc_w1" /\ Pending /\ Return(calc_sc_w1(Arg.a, Arg.b))
Call_calc_sc_w2 == fn = "calc_sc_w2" /\ Pending /\ Return(calc_sc_w2(Arg.a))
Call_calc_sc_time1 == fn = "calc_sc_time1" /\ Pending /\ Return(calc_sc_time1(Arg.a, Arg.b))
Call_calc_sc_time2 == fn = "calc_sc_time2" /\ Pending /\ Return(calc_sc_time2(Arg.a))
Call_calc_sc_sa1 == fn = "calc_sc_sa1" /\ Pending /\ Return(calc_sc_sa1(Arg.a))
Call_calc_sc_sa2 == fn = "calc_sc_sa2" /\ Pending /\ Return(calc_sc_sa2(Arg.a, Arg.b))

(***************************************************************************)
(* Inputs of calculate_all_scores: the record of the module's own example   *)
(* run, with the fields of one score family at a time replaced              *)
(***************************************************************************)
Baseline ==
    [requests_per_min |-> R(5, 2), Rmax |-> R(5, 1),
     avg_occupied_slots_hist |-> R(30, 1), total_slots |-> R(50, 1),
     bookings_last_hour |-> R(15, 1), views_last_hour |-> R(100, 1),
     free_slots |-> R(10, 1),
     successful_bookings_30d |-> R(480, 1), accepted_bookings_30d |-> R(500, 1),
     avg_speed |-> R(15, 1), free_flow_speed |-> R(50, 1),
     vehicle_density |-> R(120, 1), DensityMax |-> R(200, 1),
     local_average_price |-> R(80, 1),
     adjacent_areas |-> <<[congestion |-> R(2, 5), price |-> R(75, 1)],
                          [congestion |-> R(3, 5), price |-> R(85, 1)]>>,
     rain_mm_last_30min |-> R(5, 1), rain_max_mm |-> R(20, 1),
     is_waterlogged |-> FALSE,
     current_hour |-> 18, peak_hours |-> <<<<8, 10>>, <<17, 20>>>>,
     is_holiday_or_event |-> FALSE,
     cctv_coverage_percent |-> R(80, 1),
     road_width_m |-> R(4, 1), max_width_for_score |-> R(10, 1)]

Override(base, o) ==
    [k \in DOMAIN base \cup DOMAIN o |-> IF k \in DOMAIN o THEN o[k] ELSE base[k]]

Without(base, key) == [k \in DOMAIN base \ {key} |-> base[k]]

AdjCongestion == {R(-1, 2), Zero, R(1, 4), One}
AdjPrices == {Zero, R(60, 1), R(90, 1)}
CongestionAreas == {[congestion |-> c] : c \in AdjCongestion} \cup {[price |-> R(60, 1)]}
PriceAreas == {[price |-> p] : p \in AdjPrices} \cup {[congestion |-> One]}
LocalPrices == {R(-5, 1), Zero, R(1, 200), R(80, 1)}

FamilyOverrides ==
    {[requests_per_min |-> x, Rmax |-> y] : x \in Nums, y \in Nums}
    \cup {[avg_occupied_slots_hist |-> x, total_slots |-> y, free_slots |-> z] :
              x \in Nums, y \in Nums, z \in Nums}
    \cup {[bookings_last_hour |-> x, views_last_hour |-> y] : x \in Nums, y \in Nums}
    \cup {[successful_bookings_30d |-> x, accepted_bookings_30d |-> y] :
              x \in Nums, y \in Nums}
    \cup {[avg_speed |-> x, free_flow_speed |-> y, adjacent_areas |-> l] :
              x \in Nums, y \in Nums, l \in SeqsUpTo(CongestionAreas, MaxAdj)}
    \cup {[vehicle_density |-> x, DensityMax |-> y] : x \in Nums, y \in Nums}
    \cup {[local_average_price |-> x, adjacent_areas |-> l] :
              x \in LocalPrices, l \in SeqsUpTo(PriceAreas, MaxAdj)}
    \cup {[rain_mm_last_30min |-> x, rain_max_mm |-> y, is_waterlogged |-> w] :
              x \in Nums, y \in Nums, w \in BOOLEAN}
    \cup {[current_hour |-> h, peak_hours |-> p, is_holiday_or_event |-> e] :
              h \in Hours, p \in PeakLists, e \in BOOLEAN}
    \cup {[cctv_coverage_percent |-> c, road_width_m |-> x, max_width_for_score |-> y] :
              c \in Percents, x \in Nums, y \in Nums}

AllScoresInputs ==
    {Override(Baseline, o) : o \in FamilyOverrides}
    \cup {Without(Baseline, k) : k \in DOMAIN Baseline}

AllScoresSessions == {<<"calculate_all_scores", <<i>> >> : i \in AllScoresInputs}

Call_calculate_all_scores ==
    fn = "calculate_all_scores" /\ Pending /\ Return(calculate_all_scores(Arg))

(***************************************************************************)
(* SpecScores: one call of a score function or of calculate_all_scores      *)
(***************************************************************************)
InitScores ==
    /\ \E s \in ScoreSessions \cup AllScoresSessions : fn = s[1] /\ argv = s[2]
    /\ rets = <<>>

NextScores ==
    \/ Call_calc_sc_d1
    \/ Call_calc_sc_d2
    \/ Call_calc_sc_d3
    \/ Call_calc_sc_s1
    \/ Call_calc_sc_s2
    \/ Call_calc_sc_t1
    \/ Call_calc_sc_t2
    \/ Call_calc_sc_a1
    \/ Call_calc_sc_a2
    \/ Call_calc_sc_w1
    \/ Call_calc_sc_w2
    \/ Call_calc_sc_time1
    \/ Call_calc_sc_time2
    \/ Call_calc_sc_sa1
    \/ Call_calc_sc_sa2
    \/ Call_calculate_all_scores

SpecScores == InitScores /\ [][NextScores]_vars

(***************************************************************************)
(* SpecPrice: calls of get_base_price, and calls of calculate_dynamic_price *)
(* on a score map, on the map with its missing scores set to 0 and on the   *)
(* map without the keys the weight table lacks                              *)
(***************************************************************************)
\* scores are k/ScoreDen for k in 0 .. ScoreDen
ScoreDen == 2

ScoreVals == {R(k, ScoreDen) : k \in 0..ScoreDen} \cup {R(1, 2)}
AnyScoreVals == ScoreVals \cup {R(-1, 1), R(2, 1)}

\* the keys whose score varies on its own; the others share one value
VariedKeys == {"SC_D1", "SC_SA2"}
ExtraKey == "SC_X"

VariedMaps == UNION {[D -> AnyScoreVals] : D \in SUBSET VariedKeys}
RestMaps == {<<>>} \cup {[k \in ScoreIdSet \ VariedKeys |-> v] : v \in ScoreVals}
ExtraMaps == {<<>>, [k \in {ExtraKey} |-> One]}

ScoreMaps ==
    {Override(Override(r, v), x) : r \in RestMaps, v \in VariedMaps, x \in ExtraMaps}

TestWeights == [SC_D1 |-> R(3, 4), SC_T2 |-> R(1, 4)]
WeightTables == {get_global_weights, TestWeights}

BasePrices == {Zero, R(70, 1), R(100, 1)}
Alphas == {R(1, 5), R(1, 2), R(5, 1)}
DeltaBars == {Zero, R(11, 20), R(3, 1)}

\* the map with every key of weights it lacks set to 0
Fill(scores, weights) ==
    [k \in DOMAIN scores \cup DOMAIN weights |->
        IF k \in DOMAIN scores THEN scores[k] ELSE Zero]

\* the map without the keys weights lacks
Restrict(scores, weights) == [k \in DOMAIN scores \cap DOMAIN weights |-> scores[k]]

PriceArgs(b, s, w, a, d) ==
    [base_price |-> b, scores |-> s, weights |-> w, alpha |-> a, delta_bar |-> d]

PriceSessions ==
    {<<"calculate_dynamic_price",
       <<PriceArgs(b, s, w, a, d), PriceArgs(b, Fill(s, w), w, a, d),
         PriceArgs(b, Restrict(s, w), w, a, d)>> >> :
        b \in BasePrices, s \in ScoreMaps, w \in WeightTables, a \in Alphas, d \in DeltaBars}

Call_calculate_dynamic_price ==
    /\ fn = "calculate_dynamic_price"
    /\ Pending
    /\ Return(calculate_dynamic_price(Arg.base_price, Arg.scores, Arg.weights,
                                      Arg.alpha, Arg.delta_bar))

BookingInputs ==
    {S_regular, S_premium, S_prebooked,
     <<"P", "r", "e", "m", "i", "u", "m">>, <<"R", "E", "G", "U", "L", "A", "R">>,
     <<"p", "r", "e", "B", "o", "o", "k", "e", "d">>,
     <<"u", "n", "k", "n", "o", "w", "n">>, <<"p", "r", "e", "m", "i", "u", "m", " ">>,
     <<>>, None}

VehicleInputs ==
    {S_car, S_motorcycle, S_bike, <<"C", "a", "r">>, <<"C", "A", "R">>,
     <<"M", "o", "t", "o", "r", "c", "y", "c", "l", "e">>,
     <<"t", "r", "u", "c", "k">>, <<"c", "a", "r", "s">>, <<>>, None}

BasePriceSessions ==
    {<<"get_base_price", <<[booking_type |-> b, vehicle_type |-> v]>> >> :
        b \in BookingInputs, v \in VehicleInputs}

Call_get_base_price ==
    fn = "get_base_price" /\ Pending /\ Return(get_base_price(Arg.booking_type, Arg.vehicle_type))

InitPrice ==
    /\ \E s \in PriceSessions \cup BasePriceSessions : fn = s[1] /\ argv = s[2]
    /\ rets = <<>>

NextPrice ==
    \/ Call_calculate_dynamic_price
    \/ Call_get_base_price

SpecPrice == InitPrice /\ [][NextPrice]_vars

(***************************************************************************)
(* SpecA1: two calls of calc_sc_a1 on the same adjacent list, the second    *)
(* with a local value that is not smaller                                   *)
(***************************************************************************)
AdjValues == {R(-1, 2), Zero, R(1, 200), R(1, 4), R(1, 2), One}

A1PairSessions ==
    {<<"calc_sc_a1", <<[a |-> p[1], b |-> l], [a |-> p[2], b |-> l]>> >> :
        p \in {q \in Locals \X Locals : RLe(q[1], q[2])}, l \in SeqsUpTo(AdjValues, MaxAdj)}

InitA1 ==
    /\ \E s \in A1PairSessions : fn = s[1] /\ argv = s[2]
    /\ rets = <<>>

NextA1 == Call_calc_sc_a1

SpecA1 == InitA1 /\ [][NextA1]_vars

(***************************************************************************)
(* app.py: the /recommendations handler                                     *)
(***************************************************************************)
\* x or default, for a text column or a query argument that may be None or ""
OrElse(x, default) == IF x = None \/ x = <<>> THEN default ELSE x

S_Regular == <<"R", "e", "g", "u", "l", "a", "r">>

\* the record the handler passes to calculate_all_scores for the row r
HandlerInputs(r) ==
    [requests_per_min |-> r.requests_per_min,
     Rmax |-> r.Rmax,
     avg_occupied_slots_hist |-> r.avg_occupied_slots_hist,
     total_slots |-> IntOf(r.total_slots),
     bookings_last_hour |-> IntOf(r.bookings_last_hour),
     views_last_hour |-> IntOf(r.views_last_hour),
     free_slots |-> IntOf(r.free_slots),
     successful_bookings_30d |-> IntOf(r.successful_bookings_30d),
     accepted_bookings_30d |-> IntOf(r.accepted_bookings_30d),
     avg_speed |-> r.avg_speed,
     free_flow_speed |-> r.free_flow_speed,
     vehicle_density |-> r.vehicle_density,
     DensityMax |-> r.DensityMax,
     local_average_price |-> r.local_average_price,
     rain_mm_last_30min |-> r.rain_mm_last_30min,
     rain_max_mm |-> r.rain_max_mm,
     is_waterlogged |-> BoolOfInt(r.is_waterlogged),
     current_hour |-> IntOf(r.current_hour).n,
     is_holiday_or_event |-> BoolOfInt(r.is_holiday_or_event),
     cctv_coverage_percent |-> r.cctv_coverage_percent,
     road_width_m |-> r.road_width_m,
     max_width_for_score |-> r.max_width_for_score,
     adjacent_areas |-> <<>>]

\* the key of results.sort: (adjusted_price, distance_km)
KeyLe(x, y) ==
    \/ RLt(x.adjusted_price, y.adjusted_price)
    \/ x.adjusted_price = y.adjusted_price /\ RLe(x.distance_km, y.distance_km)

\* list.sort is stable: an item goes after the items whose key is not larger
RECURSIVE InsertSorted(_, _)
InsertSorted(sorted, item) ==
    IF sorted = <<>> THEN <<item>>
    ELSE IF KeyLe(Head(sorted), item)
         THEN <<Head(sorted)>> \o InsertSorted(Tail(sorted), item)
         ELSE <<item>> \o sorted

RECURSIVE SortResults(_)
SortResults(results) ==
    IF results = <<>> THEN <<>>
    ELSE InsertSorted(SortResults(SubSeq(results, 1, Len(results) - 1)),
                      results[Len(results)])

\* results[:5]
TopN == 5
Top(results) == SubSeq(results, 1, IF Len(results) < TopN THEN Len(results) ELSE TopN)

\* base_prices records, for each row the loop priced, the base price it used
Response(status, error, results, queried, scored, priced) ==
    [status |-> status, error |-> error, results |-> results,
     queried |-> queried, scored |-> scored, base_prices |-> priced]

\* the loop over the rows from row i on; results holds the items so far and
\* scored counts the calls of calculate_all_scores; an exception ends the
\* request with status 500
RECURSIVE ScoreRows(_, _, _, _, _, _)
ScoreRows(rows, i, results, scored, priced, ctx) ==
    IF i > Len(rows)
    THEN Response(200, "none", Top(SortResults(results)), TRUE, scored, priced)
    ELSE LET r == rows[i]
             m2 == haversine_m2(ctx.user_lat, ctx.user_lon, r.latitude, r.longitude)
             vt == lower(OrElse(r.vehicle_type, <<>>))
             vt_model == IF Contains(vt, S_bike) THEN S_motorcycle ELSE S_car
             bt == lower(OrElse(r.booking_type, S_Regular))
             base_price == get_base_price(bt, vt_model)
             used == [unique_id |-> r.unique_id, base_price |-> base_price.val]
             scores == calculate_all_scores(HandlerInputs(r))
             price == calculate_dynamic_price(base_price.val, scores.val, ctx.weights,
                                              ctx.alpha, ctx.delta_bar)
             item == [unique_id |-> r.unique_id,
                      location_name |-> r.location_name,
                      distance_km |-> R(RoundedMetres(m2), 1000),
                      vehicle_type |-> r.vehicle_type,
                      booking_type |-> r.booking_type,
                      adjusted_price |-> RoundTo(price.val.dynamic_price, 100),
                      free_slots |-> IntOf(r.free_slots),
                      safety_point |-> r.safety_point]
         IN  IF Beyond(m2) THEN ScoreRows(rows, i + 1, results, scored, priced, ctx)
             ELSE IF base_price.exc # "none"
                  THEN Response(500, base_price.exc, <<>>, TRUE, scored, priced)
             ELSE IF scores.exc # "none"
                  THEN Response(500, scores.exc, <<>>, TRUE, scored + 1, Append(priced, used))
             ELSE ScoreRows(rows, i + 1, Append(results, item), scored + 1,
                            Append(priced, used), ctx)

\* request.args[name] parsed by float(): a missing argument raises KeyError
FloatArg(x) == IF x = None THEN Raise("KeyError") ELSE ParseFloat(x)

\* float(request.args.get(name, default))
FloatArgOr(x, default) == IF x = None THEN Ok(default) ELSE ParseFloat(x)

\* the handler from the coordinates on: the two tuning arguments, the store
\* query (its result is rows) and the loop over the rows
Serve(user_lat, user_lon, req, rows) ==
    LET alpha == FloatArgOr(req.alpha, R(1, 2))
        delta_bar == FloatArgOr(req.delta_bar, R(11, 20))
        ctx == [user_lat |-> user_lat, user_lon |-> user_lon,
                weights |-> get_global_weights,
                alpha |-> alpha.val, delta_bar |-> delta_bar.val]
    IN  IF alpha.exc # "none" THEN Response(500, alpha.exc, <<>>, FALSE, 0, <<>>)
        ELSE IF delta_bar.exc # "none" THEN Response(500, delta_bar.exc, <<>>, FALSE, 0, <<>>)
        ELSE ScoreRows(rows, 1, <<>>, 0, <<>>, ctx)

recommendations(req, rows) ==
    LET qloc == req.location
    IN  IF qloc # None /\ qloc # <<>>
        THEN LET coords == geocode_location(qloc)
             IN  IF ~coords.found THEN Response(400, "Unknown location", <<>>, FALSE, 0, <<>>)
                 ELSE Serve(coords.lat, coords.lon, req, rows)
        ELSE LET user_lat == FloatArg(req.lat)
                 user_lon == FloatArg(req.lon)
             IN  IF user_lat.exc # "none" \/ user_lon.exc # "none"
                 THEN Response(400, "Provide location or lat/lon", <<>>, FALSE, 0, <<>>)
                 ELSE Serve(user_lat.val, user_lon.val, req, rows)

Call_recommendations ==
    fn = "recommendations" /\ Pending /\ Return(Ok(recommendations(Arg.req, Arg.rows)))

(***************************************************************************)
(* SpecHandler: one request to /recommendations and the rows the store      *)
(* returns for it                                                           *)
(***************************************************************************)
LocationArgs ==
    {None, <<>>, <<"G", "u", "l", "s", "h", "a", "n">>,
     <<" ", "g", "u", "l", "s", "h", "a", "n", " ", "2">>,
     <<"A", "t", "l", "a", "n", "t", "i", "s">>, <<" ">>}
LatArgs == {None, <<"2", "3", ".", "7", "9", "2", "5">>, <<"a", "b", "c">>}
LonArgs == {None, <<"9", "0", ".", "4", "0", "7", "8">>, <<>>}
AlphaArgs == {None, <<"0", ".", "8">>, <<"f", "a", "s", "t">>}

Requests ==
    {[location |-> l, lat |-> a, lon |-> o, alpha |-> al, delta_bar |-> None] :
        l \in LocationArgs, a \in LatArgs, o \in LonArgs, al \in AlphaArgs}

\* where a stored slot lies: at Gulshan, at Banani (0.37 km away), at Uttara (9 km)
Places ==
    {[location_name |-> <<"G", "u", "l", "s", "h", "a", "n", " ", "L", "o", "t">>,
      latitude |-> R(237925, 10000), longitude |-> R(904078, 10000)],
     [location_name |-> <<"B", "a", "n", "a", "n", "i", " ", "L", "o", "t">>,
      latitude |-> R(237934, 10000), longitude |-> R(904043, 10000)],
     [location_name |-> <<"U", "t", "t", "a", "r", "a", " ", "L", "o", "t">>,
      latitude |-> R(238740, 10000), longitude |-> R(903976, 10000)]}

Kinds ==
    {[vehicle_type |-> S_Car, booking_type |-> S_Premium],
     [vehicle_type |-> <<"M", "o", "t", "o", "r", "c", "y", "c", "l", "e">>,
      booking_type |-> S_Regular],
     [vehicle_type |-> <<"B", "i", "k", "e">>, booking_type |-> None],
     [vehicle_type |-> None, booking_type |-> <<"P", "r", "e", "b", "o", "o", "k", "e", "d">>]}

\* the signal columns of a stored row
Signals ==
    [requests_per_min |-> R(5, 2), Rmax |-> R(5, 1),
     avg_occupied_slots_hist |-> R(30, 1), total_slots |-> R(50, 1),
     bookings_last_hour |-> R(15, 1), views_last_hour |-> R(100, 1),
     free_slots |-> R(10, 1),
     successful_bookings_30d |-> R(480, 1), accepted_bookings_30d |-> R(500, 1),
     avg_speed |-> R(15, 1), free_flow_speed |-> R(50, 1),
     vehicle_density |-> R(120, 1), DensityMax |-> R(200, 1),
     local_average_price |-> R(80, 1),
     rain_mm_last_30min |-> R(5, 1), rain_max_mm |-> R(20, 1),
     is_waterlogged |-> Zero, current_hour |-> R(18, 1),
     is_holiday_or_event |-> One,
     cctv_coverage_percent |-> R(80, 1),
     road_width_m |-> R(4, 1), max_width_for_score |-> R(10, 1),
     safety_point |-> R(4, 1)]

\* every kind of slot at Gulshan, and a car slot at each other place
RowTemplates ==
    {Override(Override(Signals, p), k) :
        p \in {q \in Places : q.latitude = R(237925, 10000)}, k \in Kinds}
    \cup {Override(Override(Signals, p), k) :
            p \in Places, k \in {c \in Kinds : c.vehicle_type = S_Car}}

\* the rows of one query result, numbered by unique_id
RowLists ==
    {[i \in 1..Len(ts) |-> Override(ts[i], [unique_id |-> i])] :
        ts \in SeqsUpTo(RowTemplates, MaxRows)}

HandlerSessions ==
    {<<"recommendations", <<[req |-> q, rows |-> rs]>> >> : q \in Requests, rs \in RowLists}

InitHandler ==
    /\ \E s \in HandlerSessions : fn = s[1] /\ argv = s[2]
    /\ rets = <<>>

NextHandler == Call_recommendations

SpecHandler == InitHandler /\ [][NextHandler]_vars

(***************************************************************************)
(* Properties of the scoring engine (SpecScores)                            *)
(***************************************************************************)
NumericFields ==
    {"requests_per_min", "Rmax", "avg_occupied_slots_hist", "total_slots",
     "bookings_last_hour", "views_last_hour", "free_slots",
     "successful_bookings_30d", "accepted_bookings_30d", "avg_speed",
     "free_flow_speed", "vehicle_density", "DensityMax", "local_average_price",
     "rain_mm_last_30min", "rain_max_mm", "cctv_coverage_percent",
     "road_width_m", "max_width_for_score"}

\* a RawSignals record with non-negative numeric fields
NonNegativeSignals(inputs) ==
    /\ SubscriptedKeys \subseteq DOMAIN inputs
    /\ \A f \in NumericFields : RLe(Zero, inputs[f])
    /\ RLe(inputs["cctv_coverage_percent"], R(100, 1))
    /\ inputs["current_hour"] \in 0..23

\* C1: for every RawSignals record with non-negative numeric fields, each of
\* the fifteen scores calculate_all_scores returns lies in [0,1], and
\* requests_per_min = Rmax > 0 gives SC_D1 = 1.
C1_ScoresInUnit ==
    (fn = "calculate_all_scores" /\ Done /\ NonNegativeSignals(argv[1])) =>
        /\ rets[1].exc = "none"
        /\ DOMAIN rets[1].val = ScoreIdSet
        /\ \A k \in ScoreIdSet : InUnit(rets[1].val[k])
        /\ (argv[1]["requests_per_min"] = argv[1]["Rmax"] /\ argv[1]["Rmax"] # Zero) =>
               rets[1].val["SC_D1"] = One

\* a non-negative record exactly at saturation was scored, and SC_D1 is 1
C1_Witness ==
    /\ fn = "calculate_all_scores" /\ Done /\ NonNegativeSignals(argv[1])
    /\ argv[1]["requests_per_min"] = argv[1]["Rmax"]
    /\ RLt(Zero, argv[1]["Rmax"])
    /\ rets[1].exc = "none"
    /\ rets[1].val["SC_D1"] = One

\* C2: a degenerate input (zero denominator, empty adjacent list) never raises
\* and yields the fixed substitute value, whatever the other argument is.
C2_DegenerateInputs ==
    Done =>
        /\ (fn = "calc_sc_d1" /\ argv[1].b = Zero) => rets[1] = Ok(Zero)
        /\ (fn = "calc_sc_d2" /\ argv[1].b = Zero) => rets[1] = Ok(Zero)
        /\ (fn = "calc_sc_s1" /\ argv[1].b = Zero) => rets[1] = Ok(One)
        /\ (fn = "calc_sc_d3" /\ argv[1].b = Zero) => rets[1] = Ok(Zero)
        /\ (fn = "calc_sc_s2" /\ argv[1].b = Zero) => rets[1] = Ok(Zero)
        /\ (fn = "calc_sc_t1" /\ argv[1].b = Zero) => rets[1] = Ok(One)
        /\ (fn = "calc_sc_t2" /\ argv[1].b = Zero) => rets[1] = Ok(Zero)
        /\ (fn = "calc_sc_w1" /\ argv[1].b = Zero) => rets[1] = Ok(Zero)
        /\ (fn = "calc_sc_sa2" /\ argv[1].b = Zero) => rets[1] = Ok(One)
        /\ (fn = "calc_sc_a1" /\ argv[1].b = <<>>) => rets[1] = Ok(Zero)
        /\ (fn = "calc_sc_a2" /\ argv[1].b = <<>>) => rets[1] = Ok(Zero)

\* calc_sc_d1 was called with Rmax = 0 and a non-zero request rate and returned 0
C2_Witness ==
    /\ fn = "calc_sc_d1" /\ Done
    /\ argv[1].b = Zero /\ argv[1].a # Zero
    /\ rets[1] = Ok(Zero)

(***************************************************************************)
(* Properties of the price composer and the base prices (SpecPrice)         *)
(***************************************************************************)
IsPriceCall == fn = "calculate_dynamic_price"

RECURSIVE SetToSeq(_)
SetToSeq(S) ==
    IF S = {} THEN <<>>
    ELSE LET x == CHOOSE y \in S : TRUE IN <<x>> \o SetToSeq(S \ {x})

\* sum over the keys of weights of weights[k] * scores[k], a missing score being 0
ExpectedDelta(weights, scores) ==
    LET keys == SetToSeq(DOMAIN weights)
    IN  RSum([i \in 1..Len(keys) |->
                 IF keys[i] \in DOMAIN scores
                 THEN RMul(weights[keys[i]], scores[keys[i]])
                 ELSE Zero])

\* C3: calculate_dynamic_price returns delta_i = sum of weights[k]*scores[k],
\* multiplier = 1 + alpha*(delta_i - delta_bar) and dynamic_price =
\* base_price*multiplier, unclamped: for base_price > 0 both are negative
\* exactly when alpha*(delta_i - delta_bar) < -1.
C3_PriceFormula ==
    IsPriceCall =>
        \A i \in 1..Len(rets) :
            LET a == argv[i]
                r == rets[i].val
                shift == RMul(a.alpha, RSub(r.delta_i, a.delta_bar))
            IN  /\ rets[i].exc = "none"
                /\ r.delta_i = ExpectedDelta(a.weights, a.scores)
                /\ r.multiplier = RAdd(One, shift)
                /\ r.dynamic_price = RMul(a.base_price, r.multiplier)
                /\ RLt(r.multiplier, Zero) <=> RLt(shift, R(-1, 1))
                /\ RLt(Zero, a.base_price) =>
                       (RLt(r.dynamic_price, Zero) <=> RLt(shift, R(-1, 1)))

\* a call with a positive base price returned a negative multiplier and price
C3_Witness ==
    /\ IsPriceCall /\ Len(rets) >= 1
    /\ RLt(Zero, argv[1].base_price)
    /\ RLt(rets[1].val.multiplier, Zero)
    /\ RLt(rets[1].val.dynamic_price, Zero)

\* C4: on a partial score map calculate_dynamic_price does not fail and returns
\* what it returns with every missing score set to 0; keys of scores that are
\* not keys of weights do not change the result.
C4_PartialScores ==
    (IsPriceCall /\ Done) =>
        /\ \A i \in 1..3 : rets[i].exc = "none"
        /\ rets[1] = rets[2]
        /\ rets[1] = rets[3]

\* a map lacking a weighted key and holding an unweighted one was priced, with
\* a non-zero composite score
C4_Witness ==
    /\ IsPriceCall /\ Done
    /\ DOMAIN argv[1].weights \ DOMAIN argv[1].scores # {}
    /\ DOMAIN argv[1].scores \ DOMAIN argv[1].weights # {}
    /\ rets[1].val.delta_i # Zero
    /\ rets[1] = rets[2]

\* the same text up to the case of its letters
SameIgnoringCase(s, t) ==
    /\ Len(s) = Len(t)
    /\ \A i \in 1..Len(s) :
           \/ s[i] = t[i]
           \/ s[i] \in DOMAIN LowerOf /\ LowerOf[s[i]] = t[i]
           \/ t[i] \in DOMAIN LowerOf /\ LowerOf[t[i]] = s[i]

\* C5: get_base_price returns the table entry for the pair compared without
\* regard to case ("Premium", "Car" -> 100) and the fallback 70 for every
\* pair of strings with a type the table lacks, without raising.
C5_BasePrice ==
    (fn = "get_base_price" /\ Done
        /\ IsStr(argv[1].booking_type) /\ IsStr(argv[1].vehicle_type)) =>
        LET bt == argv[1].booking_type
            vt == argv[1].vehicle_type
            hits == {p \in BookingTypes \X VehicleTypes :
                        SameIgnoringCase(bt, p[1]) /\ SameIgnoringCase(vt, p[2])}
        IN  /\ rets[1].exc = "none"
            /\ \A p \in hits : rets[1].val = BASE_PRICES[p[1]][p[2]]
            /\ hits = {} => rets[1].val = R(70, 1)
            /\ (bt = S_Premium /\ vt = S_Car) => rets[1].val = R(100, 1)

\* get_base_price("Premium", "Car") returned 100
C5_Witness ==
    /\ fn = "get_base_price" /\ Done
    /\ argv[1].booking_type = S_Premium /\ argv[1].vehicle_type = S_Car
    /\ rets[1] = Ok(R(100, 1))

\* all fifteen scores at 0.5
HalfScores == [k \in ScoreIdSet |-> R(1, 2)]

IsExampleCall(a) ==
    /\ a.base_price = R(70, 1)
    /\ a.weights = get_global_weights
    /\ a.scores = HalfScores
    /\ a.alpha = R(1, 2)
    /\ a.delta_bar = R(11, 20)

\* C8 as stated: the example call returns delta_i = 0.5, multiplier = 0.975 and
\* dynamic_price = 68.25.
C8_Original ==
    (IsPriceCall /\ Len(rets) >= 1 /\ IsExampleCall(argv[1])) =>
        /\ rets[1].val.delta_i = R(1, 2)
        /\ rets[1].val.multiplier = R(975, 1000)
        /\ rets[1].val.dynamic_price = R(6825, 100)

\* C8 amended: the default weights sum to 1.0001, so the example call returns
\* delta_i = 0.50005, multiplier = 0.975025 and dynamic_price = 68.25175.
C8_Example ==
    (IsPriceCall /\ Len(rets) >= 1 /\ IsExampleCall(argv[1])) =>
        /\ rets[1].exc = "none"
        /\ rets[1].val.delta_i = R(50005, 100000)
        /\ rets[1].val.multiplier = R(975025, 1000000)
        /\ rets[1].val.dynamic_price = R(6825175, 100000)

\* the example call was made and returned
C8_Witness ==
    /\ IsPriceCall /\ Len(rets) >= 1 /\ IsExampleCall(argv[1])
    /\ rets[1].val.delta_i = R(50005, 100000)

WeightSum == RSum([i \in 1..Len(ScoreIds) |-> get_global_weights[ScoreIds[i]]])

\* C9: with the default weights and scores in [0,1] (complete or partial),
\* 0 <= delta_i <= the sum of the fifteen weights, which is within 1 +- 0.001.
C9_DeltaRange ==
    (IsPriceCall /\ Len(rets) >= 1 /\ argv[1].weights = get_global_weights
        /\ \A k \in DOMAIN argv[1].scores : InUnit(argv[1].scores[k])) =>
        /\ RLe(Zero, rets[1].val.delta_i)
        /\ RLe(rets[1].val.delta_i, WeightSum)
        /\ RLe(R(999, 1000), WeightSum)
        /\ RLe(WeightSum, R(1001, 1000))

\* a partial map of scores in [0,1] was priced with the default weights and the
\* composite score is strictly inside the range
C9_Witness ==
    /\ IsPriceCall /\ Len(rets) >= 1 /\ argv[1].weights = get_global_weights
    /\ \A k \in DOMAIN argv[1].scores : InUnit(argv[1].scores[k])
    /\ ScoreIdSet \ DOMAIN argv[1].scores # {}
    /\ RLt(Zero, rets[1].val.delta_i)
    /\ RLt(rets[1].val.delta_i, WeightSum)

(***************************************************************************)
(* Properties of calc_sc_a1 (SpecA1)                                        *)
(***************************************************************************)
\* C10: for a fixed non-empty adjacent list and local values x <= y,
\* calc_sc_a1(x, adj) <= calc_sc_a1(y, adj); the score is 0 while x does not
\* exceed the adjacent mean and never exceeds 1.
C10_A1Monotone ==
    (fn = "calc_sc_a1" /\ Done /\ Len(argv) = 2 /\ argv[1].b # <<>>) =>
        /\ rets[1].exc = "none" /\ rets[2].exc = "none"
        /\ RLe(rets[1].val, rets[2].val)
        /\ \A i \in 1..2 :
               /\ RLe(rets[i].val, One)
               /\ RLe(argv[i].a, Mean(argv[i].b)) => rets[i].val = Zero

\* both local values exceed the adjacent mean and the score rose, below the cap
C10_Witness ==
    /\ fn = "calc_sc_a1" /\ Done /\ Len(argv) = 2 /\ argv[1].b # <<>>
    /\ RLt(Mean(argv[1].b), argv[1].a)
    /\ RLt(argv[1].a, argv[2].a)
    /\ RLt(rets[1].val, rets[2].val)
    /\ RLt(rets[2].val, One)

(***************************************************************************)
(* Properties of the /recommendations handler (SpecHandler)                 *)
(***************************************************************************)
IsHandlerCall == fn = "recommendations" /\ Done

Given(x) == x # None /\ x # <<>>
Parseable(x) == x # None /\ ParseFloat(x).exc = "none"

\* the location text names a known area
Recognized(loc) ==
    \E i \in 1..Len(GEO_MAP) : Contains(lower(strip(loc)), GEO_MAP[i].name)

\* where the request puts the user
UserPoint(req) ==
    IF Given(req.location)
    THEN LET i == CHOOSE j \in 1..Len(GEO_MAP) :
                      /\ Contains(lower(strip(req.location)), GEO_MAP[j].name)
                      /\ \A k \in 1..(j - 1) :
                            ~Contains(lower(strip(req.location)), GEO_MAP[k].name)
         IN  [lat |-> GEO_MAP[i].lat, lon |-> GEO_MAP[i].lon]
    ELSE [lat |-> ParseFloat(req.lat).val, lon |-> ParseFloat(req.lon).val]

\* the request passes the validation of the location and of the tuning arguments
Accepted(req) ==
    /\ IF Given(req.location) THEN Recognized(req.location)
       ELSE Parseable(req.lat) /\ Parseable(req.lon)
    /\ req.alpha = None \/ Parseable(req.alpha)
    /\ req.delta_bar = None \/ Parseable(req.delta_bar)

\* the rows of the store within 2 km of the user
NearRows(req, rows) ==
    {i \in 1..Len(rows) :
        ~Beyond(haversine_m2(UserPoint(req).lat, UserPoint(req).lon,
                             rows[i].latitude, rows[i].longitude))}

\* C6, as stated: for any rows returned by the store the handler answers
\* with a result list that holds no slot farther than 2 km, has exactly
\* min(5, n) of the n slots within 2 km, in ascending order of
\* (adjusted_price, distance), every slot left out being no cheaper than
\* the last one listed.  The handler never passes peak_hours to the engine
\* (C12), so a row within 2 km ends the request with a KeyError.
C6_Original ==
    IsHandlerCall /\ Accepted(argv[1].req) =>
        LET resp == rets[1].val
            near == NearRows(argv[1].req, argv[1].rows)
            n == Cardinality(near)
            res == resp.results
        IN  /\ resp.status = 200
            /\ Len(res) = (IF n < 5 THEN n ELSE 5)
            /\ \A k \in 1..Len(res) :
                  /\ res[k].unique_id \in near
                  /\ RLe(res[k].distance_km, R(2, 1))
            /\ \A k \in 1..(Len(res) - 1) : KeyLe(res[k], res[k + 1])
            /\ \A j, k \in 1..Len(res) : j # k => res[j].unique_id # res[k].unique_id

\* C7 (amended): the handler answers 400, without querying the store or
\* scoring a slot, when a location is given and names no known area, and
\* when no location is given and lat or lon is missing or unparseable; a
\* request with a recognized location, or with no location and parseable
\* lat and lon, is never answered with 400.
C7_Rejection ==
    IsHandlerCall =>
        LET req == argv[1].req
            resp == rets[1].val
            rejected == resp.status = 400 /\ ~resp.queried /\ resp.scored = 0
        IN  /\ Given(req.location) /\ ~Recognized(req.location) => rejected
            /\ ~Given(req.location) /\ ~(Parseable(req.lat) /\ Parseable(req.lon))
                  => rejected
            /\ Given(req.location) /\ Recognized(req.location) => resp.status # 400
            /\ ~Given(req.location) /\ Parseable(req.lat) /\ Parseable(req.lon)
                  => resp.status # 400

\* C7, as stated: the last clause lets parseable lat and lon alone rule out
\* a 400, whatever the location
C7_Original ==
    IsHandlerCall =>
        LET req == argv[1].req
            resp == rets[1].val
            rejected == resp.status = 400 /\ ~resp.queried /\ resp.scored = 0
        IN  /\ Given(req.location) /\ ~Recognized(req.location) => rejected
            /\ ~Given(req.location) /\ ~(Parseable(req.lat) /\ Parseable(req.lon))
                  => rejected
            /\ (Given(req.location) /\ Recognized(req.location))
               \/ (Parseable(req.lat) /\ Parseable(req.lon))
                  => resp.status # 400

\* an unknown location with parseable lat and lon is rejected although rows
\* were there to score
C7_Witness ==
    /\ IsHandlerCall
    /\ Given(argv[1].req.location) /\ ~Recognized(argv[1].req.location)
    /\ Parseable(argv[1].req.lat) /\ Parseable(argv[1].req.lon)
    /\ Len(argv[1].rows) > 0
    /\ rets[1].val.status = 400 /\ ~rets[1].val.queried

(***************************************************************************)
(* Properties of calc_sc_time1 (SpecScores)                                 *)
(***************************************************************************)
\* the hours start, start + 1, ..., end - 1 of the ranges of a peak list
PeakHoursOf(peak_hours) ==
    UNION {peak_hours[i][1]..(peak_hours[i][2] - 1) : i \in 1..Len(peak_hours)}

\* C11: calc_sc_time1 returns 1 exactly when current_hour is one of the
\* hours start..end-1 of some range of peak_hours and 0 otherwise; the
\* end hour is excluded (hour 10 with [(8,10)] gives 0, hour 9 gives 1),
\* the start hour is included, and an empty list gives 0.
C11_HalfOpen ==
    fn = "calc_sc_time1" /\ Done =>
        LET h == argv[1].a
            p == argv[1].b
        IN  /\ rets[1] = Ok(IF h \in PeakHoursOf(p) THEN One ELSE Zero)
            /\ p = <<>> => rets[1].val = Zero
            /\ p = <<<<8, 10>>>> /\ h = 10 => rets[1].val = Zero
            /\ p = <<<<8, 10>>>> /\ h \in {8, 9} => rets[1].val = One
            /\ \A i \in 1..Len(p) :
                  /\ p[i][1] < p[i][2] /\ h = p[i][1] => rets[1].val = One
                  /\ Len(p) = 1 /\ h = p[i][2] => rets[1].val = Zero

\* hour 10 with the single range (8, 10) was scored 0
C11_Witness ==
    /\ fn = "calc_sc_time1" /\ Done
    /\ argv[1].a = 10 /\ argv[1].b = <<<<8, 10>>>>
    /\ rets[1] = Ok(Zero)

(***************************************************************************)
(* Properties of the handler's use of the scoring engine (SpecHandler)      *)
(***************************************************************************)
\* C12, as stated: for every record the handler assembles from a stored row
\* within 2 km, calculate_all_scores completes and returns all fifteen
\* scores, every field it reads (peak_hours included) being in the record,
\* so that scoring a slot never aborts the request.  The record the handler
\* builds has no peak_hours.
C12_Original ==
    IsHandlerCall /\ Accepted(argv[1].req) =>
        /\ \A i \in NearRows(argv[1].req, argv[1].rows) :
              LET inputs == HandlerInputs(argv[1].rows[i])
                  scores == calculate_all_scores(inputs)
              IN  /\ SubscriptedKeys \subseteq DOMAIN inputs
                  /\ scores.exc = "none"
                  /\ DOMAIN scores.val = ScoreIdSet
        /\ rets[1].val.status = 200
        /\ rets[1].val.scored = Cardinality(NearRows(argv[1].req, argv[1].rows))

\* the booking and vehicle types of BASE_PRICES, in any letter case
IsBookingType(s) == s # None /\ lower(s) \in BookingTypes
IsVehicleType(s) == s # None /\ lower(s) \in VehicleTypes

\* C13, as stated: the base price the handler uses for a slot is the
\* BASE_PRICES entry of the slot's own booking type and vehicle type, for
\* every stored row whose vehicle_type is car or motorcycle (any letter
\* case) and whose booking_type is regular, premium or prebooked; a missing
\* booking_type is priced as regular.  The handler prices a row as a
\* motorcycle only when its vehicle_type contains "bike".
C13_Original ==
    IsHandlerCall =>
        \A k \in 1..Len(rets[1].val.base_prices) :
            LET used == rets[1].val.base_prices[k]
                row == argv[1].rows[used.unique_id]
                booking == IF Given(row.booking_type) THEN row.booking_type
                           ELSE S_regular
            IN  IsVehicleType(row.vehicle_type) /\ IsBookingType(booking) =>
                    used.base_price = BASE_PRICES[lower(booking)][lower(row.vehicle_type)]

(***************************************************************************)
(* Properties of the score dependencies in calculate_all_scores (SpecScores) *)
(***************************************************************************)
IsAllScoresCall == fn = "calculate_all_scores" /\ Done /\ rets[1].exc = "none"

\* the congestion values of the adjacent areas that have one, in order
CongestionValues(inputs) ==
    LET areas == IF "adjacent_areas" \in DOMAIN inputs THEN inputs.adjacent_areas
                 ELSE <<>>
        having == SelectSeq(areas, LAMBDA a : "congestion" \in DOMAIN a)
    IN  [i \in 1..Len(having) |-> having[i].congestion]

PriceValues(inputs) ==
    LET areas == IF "adjacent_areas" \in DOMAIN inputs THEN inputs.adjacent_areas
                 ELSE <<>>
        having == SelectSeq(areas, LAMBDA a : "price" \in DOMAIN a)
    IN  [i \in 1..Len(having) |-> having[i].price]

\* C14: the SC_A1 entry of the vector calculate_all_scores returns is
\* calc_sc_a1 of the same vector's SC_T1 entry and the congestion values
\* of the adjacent areas (entries without one skipped, a missing
\* adjacent_areas field read as the empty list), SC_T1 itself being
\* calc_sc_t1 of the raw speeds; every other score is its function of raw
\* input fields alone.
C14_ScoreDependency ==
    IsAllScoresCall =>
        LET inputs == argv[1]
            scores == rets[1].val
        IN  /\ scores.SC_T1 = calc_sc_t1(inputs.avg_speed, inputs.free_flow_speed).val
            /\ scores.SC_A1 = calc_sc_a1(scores.SC_T1, CongestionValues(inputs)).val
            /\ scores.SC_D1 = calc_sc_d1(inputs.requests_per_min, inputs.Rmax).val
            /\ scores.SC_D2 = calc_sc_d2(inputs.avg_occupied_slots_hist, inputs.total_slots).val
            /\ scores.SC_D3 = calc_sc_d3(inputs.bookings_last_hour, inputs.views_last_hour).val
            /\ scores.SC_S1 = calc_sc_s1(inputs.free_slots, inputs.total_slots).val
            /\ scores.SC_S2 = calc_sc_s2(inputs.successful_bookings_30d,
                                        inputs.accepted_bookings_30d).val
            /\ scores.SC_T2 = calc_sc_t2(inputs.vehicle_density, inputs.DensityMax).val
            /\ scores.SC_A2 = calc_sc_a2(inputs.local_average_price, PriceValues(inputs)).val
            /\ scores.SC_W1 = calc_sc_w1(inputs.rain_mm_last_30min, inputs.rain_max_mm).val
            /\ scores.SC_W2 = calc_sc_w2(inputs.is_waterlogged).val
            /\ scores.SC_Time1 = calc_sc_time1(inputs.current_hour, inputs.peak_hours).val
            /\ scores.SC_Time2 = calc_sc_time2(inputs.is_holiday_or_event).val
            /\ scores.SC_SA1 = calc_sc_sa1(inputs.cctv_coverage_percent).val
            /\ scores.SC_SA2 = calc_sc_sa2(inputs.road_width_m, inputs.max_width_for_score).val

\* a vector whose SC_A1 is positive because SC_T1 exceeds the mean of the
\* congestion values, one adjacent area having no congestion value
C14_Witness ==
    /\ IsAllScoresCall
    /\ "adjacent_areas" \in DOMAIN argv[1]
    /\ Len(CongestionValues(argv[1])) > 0
    /\ Len(CongestionValues(argv[1])) < Len(argv[1].adjacent_areas)
    /\ RLt(Zero, rets[1].val.SC_A1)
    /\ rets[1].val.SC_T1 # rets[1].val.SC_T2

====
